---- MODULE Spec2Model ----
(***************************************************************************)
(* A model of src/concurrency.py: condition-variable based primitives.     *)
(*                                                                         *)
(* Every method of every class runs under `with self.cv`, so the code      *)
(* between two waits of one call is one atomic step.  A call that finds    *)
(* its wait_for predicate false parks the thread ("..._wait"); notify_all  *)
(* moves every thread parked on that condition to "..._woken"; a woken     *)
(* thread re-acquires the lock and re-evaluates the predicate.  CPython's  *)
(* Condition.wait returns only on a notification or on its timeout.        *)
(*                                                                         *)
(* One thread is in at most one call at a time, so one variable pc holds   *)
(* every thread's position.  Each class has its own next-state relation    *)
(* and its own specification over the shared Init.                         *)
(***************************************************************************)
EXTENDS Integers, Sequences, FiniteSets, TLC

\* ---------------------------------------------------------------- bounds
NThreads == 3
MaxCapacity == 3         \* capacities a barrier is constructed with: 1..MaxCapacity
MaxQueueCapacity == 2    \* capacities a BlockingQueue is constructed with
MaxItems == 4            \* enqueue calls made on the queues
MaxTime == 3             \* the clock runs from 0 to MaxTime
NConsumers == 2          \* threads that call DelayQueue.dequeue
MaxEntries == 3          \* DelayQueue.enqueue calls made
MaxWork == 3             \* DelayExecutor.execute calls made
NClients == 1            \* threads that call ExpireMap
NKeys == 2               \* keys passed to ExpireMap: 1..NKeys
NValues == 2             \* values passed to ExpireMap.put: 1..NValues
MaxOps == 3              \* put, get and remove calls made on the ExpireMap
MaxCasValue == 2         \* values passed to CAS: 0..MaxCasValue
MaxCasOps == 4           \* CAS.set and CAS.cas calls made
MaxPermits == 1          \* counts a Semaphore is constructed with: 0..MaxPermits
MaxSemCalls == 4         \* Semaphore calls made
MaxCeCalls == 4          \* ConditionEvent calls made
MaxSignals == 3          \* AutoEvent.signal calls made

Threads == 1..NThreads

None == "None"

\* the expiry of a cv.wait() without timeout
Forever == -1

\* an attribute no statement has assigned: reading it raises AttributeError
Unset == -2

\* the None of an entry's "value" and of its "when"
ValueNone == 0
WhenNone == -1

VARIABLES
    pc,                  \* pc[t]: where thread t is ("idle": in no call)
    rw_readers,          \* RWLock.readers
    rw_writers,          \* RWLock.writers
    rw2_readers,         \* RWLock2.readers
    rw2_writers,         \* RWLock2.writers
    rw2_pending_writers, \* RWLock2.pending_writers
    ab_max_arrivals,     \* AutoBarrier.max_arrivals (the capacity N)
    ab_arrivals,         \* AutoBarrier.arrivals
    ab_k,                \* ab_k[t]: self.arrivals as t's arrive() left it (0: not in arrive)
    ab_threshold,        \* ab_threshold[t]: the local max_arrivals of t's call (0: none)
    bq_capacity,         \* BlockingQueue.capacity
    bq_queue,            \* BlockingQueue.queue
    bq_appended,         \* history: the items BlockingQueue.enqueue appended, in order
    bq_returned,         \* history: the items BlockingQueue.dequeue returned, in order
    ubq_queue,           \* UnboundedBlockingQueue.queue
    ubq_appended,        \* history: the items UnboundedBlockingQueue.enqueue appended
    ubq_returned,        \* history: the items UnboundedBlockingQueue.dequeue returned
    item,                \* item[t]: the argument of t's enqueue call (0: none)
    n_items,             \* the number of enqueue calls made; call i passes item i
    now,                 \* datetime.now(), in ticks
    dq_entries,          \* DelayQueue.entries: a heapq list of <<wake time, value>>
    dq_until,            \* dq_until[t]: when t's timed cv.wait expires (Forever: untimed)
    dq_returned,         \* history: the values DelayQueue.dequeue returned, in order
    dq_popped,           \* history: the entry the last heappop of dequeue returned
    n_entries,           \* the number of DelayQueue.enqueue calls made; call i passes value i
    de_entries,          \* DelayExecutor.runnables.entries: a heapq list of <<wake time, runnable>>
    de_worker,           \* DelayExecutor.worker: where run() is, its timed wait, its local runnable
    de_submitted,        \* history: the <<runnable, time>> of every exec.submit call, in order
    de_deadline,         \* history: de_deadline[i] is call time + delay of the i-th execute call,
                         \* which passes runnable i
    em_table,            \* ExpireMap.table: key -> [value, when], for the keys present
    em_keys,             \* ExpireMap.keys.entries: a heapq list of <<wake time, key>>
    em_worker,           \* ExpireMap.worker: where _run_worker() is, its timed wait, its local key
    em_arg,              \* em_arg[t]: <<key, timeout, addable>> of t's remove between its two blocks
    em_result,           \* the last get or contains call: <<method, what it returned>>
    em_hist,             \* history: em_hist[k] is the <<operation, argument, pending>> of the
                         \* put, get and remove calls on key k, in the order they completed
                         \* ("remove_error" for a remove that raised); pending tells whether
                         \* the call left k with an expiry time still in the future
    cas_value,           \* CAS.value
    cas_last,            \* the last set or cas call: <<"set", v>> or <<"cas", prev_value, new_value, returned>>
    n_cas_ops,           \* the number of set and cas calls made
    cas_assigned,        \* history: cas_assigned[v] is how many times CAS.value was assigned v
    cas_wins,            \* history: cas_wins[v] is how many cas(v, new) calls with new /= v returned True
    sem_value,           \* Semaphore.value
    sem_until,           \* sem_until[t]: when the timed wait of t's try_acquire expires
    sem_last,            \* the last call that returned: <<thread, method, returned>>
    n_sem_calls,         \* the number of Semaphore calls begun
    n_sem_returns,       \* the number of Semaphore calls that returned
    sem_initial,         \* history: the count the Semaphore was constructed with
    sem_acquired,        \* history: the number of acquire and try_acquire calls that took a permit
    sem_released,        \* history: the number of release calls
    ce_signaled,         \* ConditionEvent.signaled
    ce_pendging,         \* ConditionEvent.pendging (the attribute __init__ and wait write)
    ce_pending,          \* ConditionEvent.pending (the attribute wait and signal_all read; Unset: no such attribute)
    ce_pid,              \* ce_pid[t]: the local pid of t's wait
    n_ce_waits,          \* history: the number of wait calls begun
    ce_ended,            \* history: the <<thread, method, outcome>> of every call that ended, in order
    ae_signaled,         \* AutoEvent.signaled
    n_ae_signals,        \* history: the number of signal calls made
    n_ae_returns         \* history: the number of wait calls that returned

rwVars == <<rw_readers, rw_writers>>
rw2Vars == <<rw2_readers, rw2_writers, rw2_pending_writers>>

abVars == <<ab_max_arrivals, ab_arrivals, ab_k, ab_threshold>>

bqVars == <<bq_capacity, bq_queue, bq_appended, bq_returned>>
ubqVars == <<ubq_queue, ubq_appended, ubq_returned>>
qVars == <<bqVars, ubqVars, item, n_items>>

dqVars == <<dq_entries, dq_until, dq_returned, dq_popped, n_entries>>

deVars == <<de_entries, de_worker, de_submitted, de_deadline>>

emVars == <<em_table, em_keys, em_worker, em_arg, em_result, em_hist>>

casVars == <<cas_value, cas_last, n_cas_ops, cas_assigned, cas_wins>>

semVars == <<sem_value, sem_until, sem_last, n_sem_calls, n_sem_returns, sem_initial, sem_acquired, sem_released>>

ceVars == <<ce_signaled, ce_pendging, ce_pending, ce_pid, n_ce_waits, ce_ended>>

aeVars == <<ae_signaled, n_ae_signals, n_ae_returns>>

vars == <<pc, now, rwVars, rw2Vars, abVars, qVars, dqVars, deVars, emVars, casVars, semVars, ceVars, aeVars>>

\* what the steps of one class leave unchanged: the state of the others
notRW == <<rw2Vars, abVars, qVars, now, dqVars, deVars, emVars, casVars, semVars, ceVars, aeVars>>
notRW2 == <<rwVars, abVars, qVars, now, dqVars, deVars, emVars, casVars, semVars, ceVars, aeVars>>
notAB == <<rwVars, rw2Vars, qVars, now, dqVars, deVars, emVars, casVars, semVars, ceVars, aeVars>>
notQ == <<rwVars, rw2Vars, abVars, now, dqVars, deVars, emVars, casVars, semVars, ceVars, aeVars>>
notDQ == <<rwVars, rw2Vars, abVars, qVars, deVars, emVars, casVars, semVars, ceVars, aeVars>>
notDE == <<rwVars, rw2Vars, abVars, qVars, dqVars, emVars, casVars, semVars, ceVars, aeVars>>
notEM == <<rwVars, rw2Vars, abVars, qVars, dqVars, deVars, casVars, semVars, ceVars, aeVars>>
notCAS == <<rwVars, rw2Vars, abVars, qVars, dqVars, deVars, emVars, semVars, ceVars, aeVars>>
notSem == <<rwVars, rw2Vars, abVars, qVars, dqVars, deVars, emVars, casVars, ceVars, aeVars>>
notCE == <<rwVars, rw2Vars, abVars, qVars, dqVars, deVars, emVars, casVars, semVars, aeVars>>
notAE == <<rwVars, rw2Vars, abVars, qVars, dqVars, deVars, emVars, casVars, semVars, ceVars>>

\* ------------------------------------------------- threading.Condition
\* cv.notify_all(): every thread parked in one of the condition's waits
\* (a state named "<call>_wait") becomes runnable ("<call>_woken").
NotifyAll(p, calls) ==
    [t \in Threads |->
        IF \E c \in calls : p[t] = c \o "_wait"
        THEN CHOOSE w \in {c \o "_woken" : c \in calls} :
                 \E c \in calls : p[t] = c \o "_wait" /\ w = c \o "_woken"
        ELSE p[t]]

Parked(t, call) == pc[t] = call \o "_wait"
Woken(t, call) == pc[t] = call \o "_woken"

\* ---------------------------------------------------------------- Init
\* The state after construction; abCaps and bqCaps are the capacities the
\* AutoBarrier and the BlockingQueue may have been constructed with, semValues
\* the counts the Semaphore may have been constructed with.
Construct(abCaps, bqCaps, semValues) ==
    /\ pc = [t \in Threads |-> "idle"]
    /\ rw_readers = 0
    /\ rw_writers = 0
    /\ rw2_readers = 0
    /\ rw2_writers = 0
    /\ rw2_pending_writers = 0
    /\ ab_max_arrivals \in abCaps
    /\ ab_arrivals = 0
    /\ ab_k = [t \in Threads |-> 0]
    /\ ab_threshold = [t \in Threads |-> 0]
    /\ bq_capacity \in bqCaps
    /\ bq_queue = <<>>
    /\ bq_appended = <<>>
    /\ bq_returned = <<>>
    /\ ubq_queue = <<>>
    /\ ubq_appended = <<>>
    /\ ubq_returned = <<>>
    /\ item = [t \in Threads |-> 0]
    /\ n_items = 0
    /\ now = 0
    /\ dq_entries = <<>>
    /\ dq_until = [t \in Threads |-> Forever]
    /\ dq_returned = <<>>
    /\ dq_popped = <<>>
    /\ n_entries = 0
    /\ de_entries = <<>>
    /\ de_worker = [at |-> "dequeue", until |-> Forever, runnable |-> 0]
    /\ de_submitted = <<>>
    /\ de_deadline = <<>>
    /\ em_table = <<>>
    /\ em_keys = <<>>
    /\ em_worker = [at |-> "dequeue", until |-> Forever, key |-> 0]
    /\ em_arg = [t \in Threads |-> <<>>]
    /\ em_result = <<>>
    /\ em_hist = [k \in 1..NKeys |-> <<>>]
    /\ cas_value = 0
    /\ cas_last = <<>>
    /\ n_cas_ops = 0
    /\ cas_assigned = [v \in 0..MaxCasValue |-> IF v = 0 THEN 1 ELSE 0]
    /\ cas_wins = [v \in 0..MaxCasValue |-> 0]
    /\ sem_value \in semValues
    /\ sem_until = [t \in Threads |-> Forever]
    /\ sem_last = <<>>
    /\ n_sem_calls = 0
    /\ n_sem_returns = 0
    /\ sem_initial = sem_value
    /\ sem_acquired = 0
    /\ sem_released = 0
    /\ ce_signaled = 0
    /\ ce_pendging = 0
    /\ ce_pending = Unset
    /\ ce_pid = [t \in Threads |-> 0]
    /\ n_ce_waits = 0
    /\ ce_ended = <<>>
    /\ ae_signaled = FALSE
    /\ n_ae_signals = 0
    /\ n_ae_returns = 0

Init == Construct({1}, {1}, {0})

\* ============================================================== RWLock
RWCalls == {"rw_lock_read", "rw_lock_write"}

\* lock_read's wait_for predicate
RWReadAdmitted(readers, writers) == writers <= 0

RWWriteAdmitted_NoReaders(readers, writers) == writers = 0
\* lock_write's wait_for predicate
RWWriteAdmitted(readers, writers) == writers + readers = 0

\* lock_read from its wait_for on: the predicate, then readers += 1, notify_all
RWLockReadBody(t) ==
    IF RWReadAdmitted(rw_readers, rw_writers)
    THEN /\ rw_readers' = rw_readers + 1
         /\ pc' = [NotifyAll(pc, RWCalls) EXCEPT ![t] = "rw_reading"]
         /\ UNCHANGED rw_writers
    ELSE /\ pc' = [pc EXCEPT ![t] = "rw_lock_read_wait"]
         /\ UNCHANGED rwVars

RWLockRead(t) ==
    /\ pc[t] = "idle"
    /\ RWLockReadBody(t)
    /\ UNCHANGED notRW

RWLockReadWake(t) ==
    /\ Woken(t, "rw_lock_read")
    /\ RWLockReadBody(t)
    /\ UNCHANGED notRW

RWUnlockRead(t) ==
    /\ pc[t] = "rw_reading"
    /\ rw_readers' = rw_readers - 1
    /\ pc' = [NotifyAll(pc, RWCalls) EXCEPT ![t] = "idle"]
    /\ UNCHANGED <<rw_writers, notRW>>

RWLockWriteBody(t) ==
    IF RWWriteAdmitted(rw_readers, rw_writers)
    THEN /\ rw_writers' = rw_writers + 1
         /\ pc' = [NotifyAll(pc, RWCalls) EXCEPT ![t] = "rw_writing"]
         /\ UNCHANGED rw_readers
    ELSE /\ pc' = [pc EXCEPT ![t] = "rw_lock_write_wait"]
         /\ UNCHANGED rwVars

RWLockWrite(t) ==
    /\ pc[t] = "idle"
    /\ RWLockWriteBody(t)
    /\ UNCHANGED notRW

RWLockWriteWake(t) ==
    /\ Woken(t, "rw_lock_write")
    /\ RWLockWriteBody(t)
    /\ UNCHANGED notRW

RWUnlockWrite(t) ==
    /\ pc[t] = "rw_writing"
    /\ rw_writers' = rw_writers - 1
    /\ pc' = [NotifyAll(pc, RWCalls) EXCEPT ![t] = "idle"]
    /\ UNCHANGED <<rw_readers, notRW>>

\* ============================================================= RWLock2
RW2Calls == {"rw2_lock_read", "rw2_lock_write"}

RW2ReadAdmitted_IgnorePending(writers, pending_writers) == writers <= 0
\* lock_read's wait_for predicate
RW2ReadAdmitted(writers, pending_writers) == writers + pending_writers <= 0

\* lock_write's wait_for predicate, evaluated after the caller's own
\* pending_writers += 1
RW2WriteAdmitted(writers, pending_writers) == writers + pending_writers <= 0

RW2LockReadBody(t) ==
    IF RW2ReadAdmitted(rw2_writers, rw2_pending_writers)
    THEN /\ rw2_readers' = rw2_readers + 1
         /\ pc' = [NotifyAll(pc, RW2Calls) EXCEPT ![t] = "rw2_reading"]
         /\ UNCHANGED <<rw2_writers, rw2_pending_writers>>
    ELSE /\ pc' = [pc EXCEPT ![t] = "rw2_lock_read_wait"]
         /\ UNCHANGED rw2Vars

RW2LockRead(t) ==
    /\ pc[t] = "idle"
    /\ RW2LockReadBody(t)
    /\ UNCHANGED notRW2

RW2LockReadWake(t) ==
    /\ Woken(t, "rw2_lock_read")
    /\ RW2LockReadBody(t)
    /\ UNCHANGED notRW2

RW2UnlockRead(t) ==
    /\ pc[t] = "rw2_reading"
    /\ rw2_readers' = rw2_readers - 1
    /\ pc' = [NotifyAll(pc, RW2Calls) EXCEPT ![t] = "idle"]
    /\ UNCHANGED <<rw2_writers, rw2_pending_writers, notRW2>>

\* lock_write from its wait_for on, given the pending count p the predicate sees
RW2LockWriteBody(t, p) ==
    IF RW2WriteAdmitted(rw2_writers, p)
    THEN /\ rw2_pending_writers' = p - 1
         /\ rw2_writers' = rw2_writers + 1
         /\ pc' = [NotifyAll(pc, RW2Calls) EXCEPT ![t] = "rw2_writing"]
         /\ UNCHANGED rw2_readers
    ELSE /\ rw2_pending_writers' = p
         /\ pc' = [pc EXCEPT ![t] = "rw2_lock_write_wait"]
         /\ UNCHANGED <<rw2_readers, rw2_writers>>

RW2LockWrite(t) ==
    /\ pc[t] = "idle"
    /\ RW2LockWriteBody(t, rw2_pending_writers + 1)
    /\ UNCHANGED notRW2

RW2LockWriteWake(t) ==
    /\ Woken(t, "rw2_lock_write")
    /\ RW2LockWriteBody(t, rw2_pending_writers)
    /\ UNCHANGED notRW2

RW2UnlockWrite(t) ==
    /\ pc[t] = "rw2_writing"
    /\ rw2_writers' = rw2_writers - 1
    /\ pc' = [NotifyAll(pc, RW2Calls) EXCEPT ![t] = "idle"]
    /\ UNCHANGED <<rw2_readers, rw2_pending_writers, notRW2>>

\* ========================================================= AutoBarrier
ABCalls == {"ab_arrive", "ab_wait"}

ABMaxArrivals_Capacity(arrivals, capacity) == capacity
\* max_arrivals = self.arrivals - self.arrivals % self.max_arrivals + self.max_arrivals
ABMaxArrivals(arrivals, capacity) == (arrivals - (arrivals % capacity)) + capacity

\* the wait_for predicate of arrive and of wait
ABReleased(arrivals, max_arrivals) == arrivals >= max_arrivals

\* arrive: arrivals += 1, the local threshold, then notify_all or wait_for
ABArrive(t) ==
    /\ pc[t] = "idle"
    /\ LET arrivals == ab_arrivals + 1
           max_arrivals == ABMaxArrivals(arrivals, ab_max_arrivals)
       IN  /\ ab_arrivals' = arrivals
           /\ IF arrivals = max_arrivals
              THEN /\ pc' = [NotifyAll(pc, ABCalls) EXCEPT ![t] = "idle"]
                   /\ UNCHANGED <<ab_k, ab_threshold>>
              ELSE IF ABReleased(arrivals, max_arrivals)
              THEN UNCHANGED <<pc, ab_k, ab_threshold>>
              ELSE /\ pc' = [pc EXCEPT ![t] = "ab_arrive_wait"]
                   /\ ab_k' = [ab_k EXCEPT ![t] = arrivals]
                   /\ ab_threshold' = [ab_threshold EXCEPT ![t] = max_arrivals]
    /\ UNCHANGED <<ab_max_arrivals, notAB>>

\* a notified arrive or wait re-evaluates its predicate and returns or parks again
ABWake(t) ==
    /\ \E c \in ABCalls : Woken(t, c)
    /\ IF ABReleased(ab_arrivals, ab_threshold[t])
       THEN /\ pc' = [pc EXCEPT ![t] = "idle"]
            /\ ab_k' = [ab_k EXCEPT ![t] = 0]
            /\ ab_threshold' = [ab_threshold EXCEPT ![t] = 0]
       ELSE /\ pc' = [pc EXCEPT ![t] =
                         IF Woken(t, "ab_arrive") THEN "ab_arrive_wait" ELSE "ab_wait_wait"]
            /\ UNCHANGED <<ab_k, ab_threshold>>
    /\ UNCHANGED <<ab_max_arrivals, ab_arrivals, notAB>>

\* wait: the local threshold, then wait_for
ABWait(t) ==
    /\ pc[t] = "idle"
    /\ LET max_arrivals == ABMaxArrivals(ab_arrivals, ab_max_arrivals)
       IN  IF ABReleased(ab_arrivals, max_arrivals)
           THEN UNCHANGED <<pc, ab_threshold>>
           ELSE /\ pc' = [pc EXCEPT ![t] = "ab_wait_wait"]
                /\ ab_threshold' = [ab_threshold EXCEPT ![t] = max_arrivals]
    /\ UNCHANGED <<ab_max_arrivals, ab_arrivals, ab_k, notAB>>

\* ====================================================== blocking queues
Pop(q) == <<q[Len(q)], SubSeq(q, 1, Len(q) - 1)>>
\* deque.popleft(): the item returned and the deque left
Popleft(q) == <<Head(q), Tail(q)>>


\* ---------------------------------------------- UnboundedBlockingQueue
UBQCalls == {"ubq_dequeue"}

\* enqueue: append, notify_all
UBQEnqueue(t) ==
    /\ pc[t] = "idle"
    /\ n_items < MaxItems
    /\ n_items' = n_items + 1
    /\ ubq_queue' = Append(ubq_queue, n_items + 1)
    /\ ubq_appended' = Append(ubq_appended, n_items + 1)
    /\ pc' = NotifyAll(pc, UBQCalls)
    /\ UNCHANGED <<ubq_returned, item, bqVars, notQ>>

\* dequeue from its wait_for on: bool(self.queue), then popleft
UBQDequeueBody(t) ==
    IF ubq_queue /= <<>>
    THEN /\ ubq_queue' = Popleft(ubq_queue)[2]
         /\ ubq_returned' = Append(ubq_returned, Popleft(ubq_queue)[1])
         /\ pc' = [pc EXCEPT ![t] = "idle"]
    ELSE /\ pc' = [pc EXCEPT ![t] = "ubq_dequeue_wait"]
         /\ UNCHANGED <<ubq_queue, ubq_returned>>

UBQDequeue(t) ==
    /\ pc[t] = "idle"
    /\ UBQDequeueBody(t)
    /\ UNCHANGED <<ubq_appended, item, n_items, bqVars, notQ>>

UBQDequeueWake(t) ==
    /\ Woken(t, "ubq_dequeue")
    /\ UBQDequeueBody(t)
    /\ UNCHANGED <<ubq_appended, item, n_items, bqVars, notQ>>

\* ------------------------------------------------------- BlockingQueue
BQCalls == {"bq_enqueue", "bq_dequeue"}

BQHasRoom_Inclusive(queue, capacity) == Len(queue) <= capacity
\* enqueue's wait_for predicate
BQHasRoom(queue, capacity) == Len(queue) < capacity

\* enqueue from its wait_for on, for the item x: append, notify_all
BQEnqueueBody(t, x) ==
    IF BQHasRoom(bq_queue, bq_capacity)
    THEN /\ bq_queue' = Append(bq_queue, x)
         /\ bq_appended' = Append(bq_appended, x)
         /\ pc' = [NotifyAll(pc, BQCalls) EXCEPT ![t] = "idle"]
         /\ item' = [item EXCEPT ![t] = 0]
    ELSE /\ pc' = [pc EXCEPT ![t] = "bq_enqueue_wait"]
         /\ item' = [item EXCEPT ![t] = x]
         /\ UNCHANGED <<bq_queue, bq_appended>>

BQEnqueue(t) ==
    /\ pc[t] = "idle"
    /\ n_items < MaxItems
    /\ n_items' = n_items + 1
    /\ BQEnqueueBody(t, n_items + 1)
    /\ UNCHANGED <<bq_capacity, bq_returned, ubqVars, notQ>>

BQEnqueueWake(t) ==
    /\ Woken(t, "bq_enqueue")
    /\ BQEnqueueBody(t, item[t])
    /\ UNCHANGED <<bq_capacity, bq_returned, n_items, ubqVars, notQ>>

\* dequeue from its wait_for on: bool(self.queue), then popleft (no notify)
BQDequeueBody(t) ==
    IF bq_queue /= <<>>
    THEN /\ bq_queue' = Popleft(bq_queue)[2]
         /\ bq_returned' = Append(bq_returned, Popleft(bq_queue)[1])
         /\ pc' = [pc EXCEPT ![t] = "idle"]
    ELSE /\ pc' = [pc EXCEPT ![t] = "bq_dequeue_wait"]
         /\ UNCHANGED <<bq_queue, bq_returned>>

BQDequeue(t) ==
    /\ pc[t] = "idle"
    /\ BQDequeueBody(t)
    /\ UNCHANGED <<bq_capacity, bq_appended, item, n_items, ubqVars, notQ>>

BQDequeueWake(t) ==
    /\ Woken(t, "bq_dequeue")
    /\ BQDequeueBody(t)
    /\ UNCHANGED <<bq_capacity, bq_appended, item, n_items, ubqVars, notQ>>

\* ================================================================ heapq
\* heapq keeps a list (0-based positions; the sequence is 1-based) ordered as
\* a binary min-heap of tuples <<wake time, payload>>.  A comparison is
\* PyObject_RichCompareBool(a, b, Py_LT): 1, 0, or -1 when it raises.  Tuples
\* compare by their first differing component, so two entries with the same
\* wake time compare their payloads: that raises TypeError for payloads
\* without an order (functions), and only then.
TupleLt(a, b, orderable) ==
    IF a[1] /= b[1] THEN (IF a[1] < b[1] THEN 1 ELSE 0)
    ELSE IF a[2] = b[2] THEN 0
    ELSE IF orderable THEN (IF a[2] < b[2] THEN 1 ELSE 0)
    ELSE -1

Swap(heap, i, j) == [heap EXCEPT ![i] = heap[j], ![j] = heap[i]]

\* _siftdown(heap, startpos, pos): <<rc, heap>>
RECURSIVE SiftDown(_, _, _, _)
SiftDown(heap, startpos, pos, orderable) ==
    IF pos > startpos
    THEN LET parentpos == (pos - 1) \div 2
             cmp == TupleLt(heap[pos + 1], heap[parentpos + 1], orderable)
         IN  IF cmp < 0 THEN <<-1, heap>>
             ELSE IF cmp = 0 THEN <<0, heap>>
             ELSE SiftDown(Swap(heap, pos + 1, parentpos + 1), startpos, parentpos,
                           orderable)
    ELSE <<0, heap>>

\* _siftup(heap, pos): the smaller child bubbles up to a leaf, then _siftdown
RECURSIVE SiftUp(_, _, _, _)
SiftUp(heap, startpos, pos, orderable) ==
    LET endpos == Len(heap)
        limit == endpos \div 2
    IN  IF pos < limit
        THEN LET left == 2 * pos + 1
                 cmp == IF left + 1 < endpos
                        THEN TupleLt(heap[left + 1], heap[left + 2], orderable)
                        ELSE 1
                 childpos == IF cmp = 0 THEN left + 1 ELSE left
             IN  IF cmp < 0 THEN <<-1, heap>>
                 ELSE SiftUp(Swap(heap, childpos + 1, pos + 1), startpos, childpos,
                             orderable)
        ELSE SiftDown(heap, startpos, pos, orderable)

\* heappush(heap, item): <<rc, heap>>
HeapPush(heap, entry, orderable) ==
    SiftDown(Append(heap, entry), 0, Len(heap), orderable)

\* heappop(heap): <<rc, the entry returned, heap>>
HeapPop(heap, orderable) ==
    LET lastelt == heap[Len(heap)]
        rest == SubSeq(heap, 1, Len(heap) - 1)
    IN  IF rest = <<>>
        THEN <<0, lastelt, rest>>
        ELSE LET r == SiftUp([rest EXCEPT ![1] = lastelt], 0, 0, orderable)
             IN  <<r[1], rest[1], r[2]>>

\* =========================================================== DelayQueue
DQCalls == {"dq_dequeue"}

\* the timeouts passed to enqueue at a given time: those whose wake time the
\* clock reaches
Delays(time) == 0..(MaxTime - time)

Consumers == 1..NConsumers

\* the tick of the clock
Tick ==
    /\ now < MaxTime
    /\ now' = now + 1
    /\ UNCHANGED <<pc, rwVars, rw2Vars, abVars, qVars, dqVars, deVars, emVars, casVars, semVars, ceVars, aeVars>>

DQDue_IgnoringTime(entries, time) == entries /= <<>>
\* dequeue's loop ends: not (not self.entries or self.entries[0][0] > datetime.now())
DQDue(entries, time) == entries /= <<>> /\ ~(entries[1][1] > time)

\* when the cv.wait of dequeue's loop expires: never for the empty queue,
\* else at entries[0][0] (the timeout is entries[0][0] - datetime.now())
DQWaitUntil(entries) == IF entries = <<>> THEN Forever ELSE entries[1][1]

\* a timed wait that has run out
TimedOut(until, time) == until /= Forever /\ time >= until

DQNotifyAll_Nobody(p) == p
\* enqueue's cv.notify_all(): every consumer blocked in dequeue is woken
DQNotifyAll(p) == NotifyAll(p, DQCalls)

\* enqueue(value, timeout): heappush, notify_all
DQEnqueue(t, timeout) ==
    /\ pc[t] = "idle"
    /\ n_entries < MaxEntries
    /\ n_entries' = n_entries + 1
    /\ dq_entries' = HeapPush(dq_entries, <<now + timeout, n_entries + 1>>, TRUE)[2]
    /\ pc' = DQNotifyAll(pc)
    /\ UNCHANGED <<now, dq_until, dq_returned, dq_popped, notDQ>>

\* dequeue from its loop test on: heappop and return, or cv.wait
DQDequeueBody(t) ==
    IF DQDue(dq_entries, now)
    THEN LET r == HeapPop(dq_entries, TRUE)
         IN  /\ dq_entries' = r[3]
             /\ dq_popped' = r[2]
             /\ dq_returned' = Append(dq_returned, r[2][2])
             /\ dq_until' = [dq_until EXCEPT ![t] = Forever]
             /\ pc' = [pc EXCEPT ![t] = "idle"]
    ELSE /\ pc' = [pc EXCEPT ![t] = "dq_dequeue_wait"]
         /\ dq_until' = [dq_until EXCEPT ![t] = DQWaitUntil(dq_entries)]
         /\ UNCHANGED <<dq_entries, dq_popped, dq_returned>>

DQDequeue(t) ==
    /\ pc[t] = "idle"
    /\ DQDequeueBody(t)
    /\ UNCHANGED <<now, n_entries, notDQ>>

DQDequeueWake(t) ==
    /\ Woken(t, "dq_dequeue")
    /\ DQDequeueBody(t)
    /\ UNCHANGED <<now, n_entries, notDQ>>

DQDequeueTimeout(t) ==
    /\ Parked(t, "dq_dequeue")
    /\ TimedOut(dq_until[t], now)
    /\ DQDequeueBody(t)
    /\ UNCHANGED <<now, n_entries, notDQ>>

\* ======================================================== DelayExecutor
\* The runnables are functions: distinct ones are unequal and have no order,
\* so heapq's comparison of two entries with the same wake time raises
\* TypeError.  An exception leaves the `with self.cv` block without the
\* notify_all, and ends run() and with it the worker thread.

\* cv.notify_all() of runnables, whose only waiter is the worker
DENotifyAll(worker) ==
    IF worker.at = "wait" THEN [worker EXCEPT !.at = "woken"] ELSE worker

\* execute(runnable, timeout): exec.submit at once for timeout zero, else
\* runnables.enqueue: heappush, notify_all
DEExecute(timeout) ==
    /\ Len(de_deadline) < MaxWork
    /\ LET runnable == Len(de_deadline) + 1
       IN  /\ de_deadline' = Append(de_deadline, now + timeout)
           /\ IF timeout = 0
              THEN /\ de_submitted' = Append(de_submitted, <<runnable, now>>)
                   /\ UNCHANGED <<de_entries, de_worker>>
              ELSE LET r == HeapPush(de_entries, <<now + timeout, runnable>>, FALSE)
                   IN  /\ de_entries' = r[2]
                       /\ de_worker' = IF r[1] < 0 THEN de_worker
                                       ELSE DENotifyAll(de_worker)
                       /\ UNCHANGED de_submitted
    /\ UNCHANGED <<pc, now, notDE>>

\* run(): runnables.dequeue() from its loop test on
DEWorkerDequeueBody ==
    IF DQDue(de_entries, now)
    THEN LET r == HeapPop(de_entries, FALSE)
         IN  /\ de_entries' = r[3]
             /\ de_worker' = IF r[1] < 0
                             THEN [at |-> "dead", until |-> Forever, runnable |-> 0]
                             ELSE [at |-> "submit", until |-> Forever,
                                   runnable |-> r[2][2]]
    ELSE /\ de_worker' = [at |-> "wait", until |-> DQWaitUntil(de_entries),
                          runnable |-> 0]
         /\ UNCHANGED de_entries

DEWorkerDequeue ==
    /\ de_worker.at = "dequeue"
    /\ DEWorkerDequeueBody
    /\ UNCHANGED <<now, de_submitted, de_deadline, pc, notDE>>

DEWorkerWake ==
    /\ de_worker.at = "woken"
    /\ DEWorkerDequeueBody
    /\ UNCHANGED <<now, de_submitted, de_deadline, pc, notDE>>

DEWorkerTimeout ==
    /\ de_worker.at = "wait"
    /\ TimedOut(de_worker.until, now)
    /\ DEWorkerDequeueBody
    /\ UNCHANGED <<now, de_submitted, de_deadline, pc, notDE>>

\* run(): self.exec.submit(runnable), and around the loop
DEWorkerSubmit ==
    /\ de_worker.at = "submit"
    /\ de_submitted' = Append(de_submitted, <<de_worker.runnable, now>>)
    /\ de_worker' = [at |-> "dequeue", until |-> Forever, runnable |-> 0]
    /\ UNCHANGED <<now, de_entries, de_deadline, pc, notDE>>

\* ============================================================ ExpireMap
\* The keys are orderable (heapq compares them when wake times tie).
Clients == 1..NClients
Keys == 1..NKeys
Values == 1..NValues

\* the calls made so far: those completed and the removes in progress
EMOps ==
    LET RECURSIVE Sum(_)
        Sum(k) == IF k = 0 THEN 0 ELSE Len(em_hist[k]) + Sum(k - 1)
    IN  Sum(NKeys) + Cardinality({t \in Clients : pc[t] = "em_remove_enqueue"})

\* self.table[key] of a defaultdict: a missing key is inserted with the default
EMLookup(table, key) ==
    IF key \in DOMAIN table
    THEN table
    ELSE [k \in DOMAIN table \cup {key} |->
             IF k = key THEN [value |-> ValueNone, when |-> WhenNone] ELSE table[k]]

\* del self.table[key]
EMDelete(table, key) == [k \in DOMAIN table \ {key} |-> table[k]]

\* the entry of key has an expiry time recorded and it is later than time
EMPending(table, key, time) ==
    key \in DOMAIN table /\ table[key].when /= WhenNone /\ table[key].when > time

EMRecord(key, op, arg, pending) ==
    [em_hist EXCEPT ![key] = Append(em_hist[key], <<op, arg, pending>>)]

\* cv.notify_all() of keys, whose only waiter is the worker
EMNotifyAll(worker) ==
    IF worker.at = "wait" THEN [worker EXCEPT !.at = "woken"] ELSE worker

\* contains(key)
EMContains(t, key) ==
    /\ pc[t] = "idle"
    /\ em_result' = <<"contains", key \in DOMAIN em_table>>
    /\ UNCHANGED <<pc, now, em_table, em_keys, em_worker, em_arg, em_hist, notEM>>

\* get(key)
EMGet(t, key) ==
    /\ pc[t] = "idle"
    /\ EMOps < MaxOps
    /\ em_table' = EMLookup(em_table, key)
    /\ em_result' = <<"get", em_table'[key].value>>
    /\ em_hist' = EMRecord(key, "get", 0, EMPending(em_table', key, now))
    /\ UNCHANGED <<pc, now, em_keys, em_worker, em_arg, notEM>>

\* put(key, value)
EMPut(t, key, value) ==
    /\ pc[t] = "idle"
    /\ EMOps < MaxOps
    /\ em_table' = [EMLookup(em_table, key) EXCEPT ![key].value = value]
    /\ em_hist' = EMRecord(key, "put", value, EMPending(em_table', key, now))
    /\ UNCHANGED <<pc, now, em_keys, em_worker, em_arg, em_result, notEM>>

\* _run_worker: when is None or when <= datetime.now()
EMExpiryDue(when, time) == when = WhenNone \/ when <= time

\* remove(key, timeout), the block under self.lock: record the expiry time
\* for timeout > 0 (the enqueue follows, outside the lock), else delete; del
\* of a missing key raises KeyError and changes nothing. The timeout is a
\* number (timeout > 0, timedelta(seconds=timeout)); addable tells whether it
\* is one that datetime.now() + timeout accepts, which int and float are not.
EMRemove(t, key, timeout, addable) ==
    /\ pc[t] = "idle"
    /\ EMOps < MaxOps
    /\ IF timeout > 0
       THEN /\ em_table' = [EMLookup(em_table, key) EXCEPT ![key].when = now + timeout]
            /\ em_arg' = [em_arg EXCEPT ![t] = <<key, timeout, addable>>]
            /\ pc' = [pc EXCEPT ![t] = "em_remove_enqueue"]
            /\ UNCHANGED em_hist
       ELSE /\ em_table' = IF key \in DOMAIN em_table THEN EMDelete(em_table, key)
                           ELSE em_table
            /\ em_hist' = EMRecord(key, IF key \in DOMAIN em_table THEN "remove"
                                        ELSE "remove_error", timeout, FALSE)
            /\ UNCHANGED <<pc, em_arg>>
    /\ UNCHANGED <<now, em_keys, em_worker, em_result, notEM>>

\* remove(key, timeout > 0), after the lock: self.keys.enqueue(key, timeout),
\* where DelayQueue.enqueue evaluates datetime.now() + timeout, a TypeError
\* unless the timeout is addable to a datetime; then nothing is queued and
\* nobody is notified
EMRemoveEnqueue(t) ==
    /\ pc[t] = "em_remove_enqueue"
    /\ LET key == em_arg[t][1]
           timeout == em_arg[t][2]
           addable == em_arg[t][3]
       IN  IF addable
           THEN /\ em_keys' = HeapPush(em_keys, <<now + timeout, key>>, TRUE)[2]
                /\ em_worker' = EMNotifyAll(em_worker)
                /\ em_hist' = EMRecord(key, "remove", timeout, TRUE)
           ELSE /\ em_hist' = EMRecord(key, "remove_error", timeout, TRUE)
                /\ UNCHANGED <<em_keys, em_worker>>
    /\ em_arg' = [em_arg EXCEPT ![t] = <<>>]
    /\ pc' = [pc EXCEPT ![t] = "idle"]
    /\ UNCHANGED <<now, em_table, em_result, notEM>>

\* _run_worker: self.keys.dequeue() from its loop test on
EMWorkerDequeueBody ==
    IF DQDue(em_keys, now)
    THEN LET r == HeapPop(em_keys, TRUE)
         IN  /\ em_keys' = r[3]
             /\ em_worker' = [at |-> "check", until |-> Forever, key |-> r[2][2]]
    ELSE /\ em_worker' = [at |-> "wait", until |-> DQWaitUntil(em_keys), key |-> 0]
         /\ UNCHANGED em_keys

EMWorkerDequeue ==
    /\ em_worker.at = "dequeue"
    /\ EMWorkerDequeueBody
    /\ UNCHANGED <<pc, now, em_table, em_arg, em_result, em_hist, notEM>>

EMWorkerWake ==
    /\ em_worker.at = "woken"
    /\ EMWorkerDequeueBody
    /\ UNCHANGED <<pc, now, em_table, em_arg, em_result, em_hist, notEM>>

EMWorkerTimeout ==
    /\ em_worker.at = "wait"
    /\ TimedOut(em_worker.until, now)
    /\ EMWorkerDequeueBody
    /\ UNCHANGED <<pc, now, em_table, em_arg, em_result, em_hist, notEM>>

\* _run_worker, the block under self.lock: delete the key if it is present
\* and its stored expiry is None or due
EMWorkerCheck ==
    /\ em_worker.at = "check"
    /\ LET key == em_worker.key
       IN  em_table' = IF key \in DOMAIN em_table
                          /\ EMExpiryDue(em_table[key].when, now)
                       THEN EMDelete(em_table, key)
                       ELSE em_table
    /\ em_worker' = [at |-> "dequeue", until |-> Forever, key |-> 0]
    /\ UNCHANGED <<pc, now, em_keys, em_arg, em_result, em_hist, notEM>>

\* ================================================================= CAS
\* The cell is constructed as CAS(0).  No method of CAS waits on its
\* condition, so its notify_all calls wake nobody.
CasValues == 0..MaxCasValue

\* self.value = v, with the count of the assignments of v
CASAssign(v) ==
    /\ cas_value' = v
    /\ cas_assigned' = [cas_assigned EXCEPT ![v] = @ + 1]

\* set(v)
CASSet(t, v) ==
    /\ pc[t] = "idle"
    /\ n_cas_ops < MaxCasOps
    /\ n_cas_ops' = n_cas_ops + 1
    /\ CASAssign(v)
    /\ cas_last' = <<"set", v>>
    /\ UNCHANGED <<pc, now, cas_wins, notCAS>>

CASMatches_Always(value, prev_value) == TRUE
\* cas: self.value == prev_value
CASMatches(value, prev_value) == value = prev_value

\* cas(prev_value, new_value), one step under the lock
CASCas(t, prev_value, new_value) ==
    /\ pc[t] = "idle"
    /\ n_cas_ops < MaxCasOps
    /\ n_cas_ops' = n_cas_ops + 1
    /\ IF CASMatches(cas_value, prev_value)
       THEN /\ CASAssign(new_value)
            /\ cas_last' = <<"cas", prev_value, new_value, TRUE>>
            /\ cas_wins' = IF new_value /= prev_value
                           THEN [cas_wins EXCEPT ![prev_value] = @ + 1]
                           ELSE cas_wins
       ELSE /\ cas_last' = <<"cas", prev_value, new_value, FALSE>>
            /\ UNCHANGED <<cas_value, cas_assigned, cas_wins>>
    /\ UNCHANGED <<pc, now, notCAS>>

\* =========================================================== Semaphore
SemCalls == {"sem_acquire", "sem_try_acquire"}

SemAvailable_AtZero(value) == value >= 0
\* the wait_for predicate of acquire and try_acquire: self.value > 0
SemAvailable(value) == value > 0

SemTryTakes_AtZero(value) == value >= 0
\* try_acquire after its wait_for: if self.value > 0
SemTryTakes(value) == value > 0

\* a call of method by t returns
SemReturn(t, method, returned) ==
    /\ sem_last' = <<t, method, returned>>
    /\ n_sem_returns' = n_sem_returns + 1

\* release(): value += 1, notify_all
SemRelease(t) ==
    /\ pc[t] = "idle"
    /\ n_sem_calls < MaxSemCalls
    /\ n_sem_calls' = n_sem_calls + 1
    /\ sem_value' = sem_value + 1
    /\ sem_released' = sem_released + 1
    /\ pc' = NotifyAll(pc, SemCalls)
    /\ SemReturn(t, "release", None)
    /\ UNCHANGED <<now, sem_until, sem_initial, sem_acquired, notSem>>

\* acquire() from its wait_for on: the predicate, then value -= 1
SemAcquireBody(t) ==
    IF SemAvailable(sem_value)
    THEN /\ sem_value' = sem_value - 1
         /\ sem_acquired' = sem_acquired + 1
         /\ pc' = [pc EXCEPT ![t] = "idle"]
         /\ SemReturn(t, "acquire", None)
    ELSE /\ pc' = [pc EXCEPT ![t] = "sem_acquire_wait"]
         /\ UNCHANGED <<sem_value, sem_acquired, sem_last, n_sem_returns>>

SemAcquire(t) ==
    /\ pc[t] = "idle"
    /\ n_sem_calls < MaxSemCalls
    /\ n_sem_calls' = n_sem_calls + 1
    /\ SemAcquireBody(t)
    /\ UNCHANGED <<now, sem_until, sem_initial, sem_released, notSem>>

SemAcquireWake(t) ==
    /\ Woken(t, "sem_acquire")
    /\ SemAcquireBody(t)
    /\ UNCHANGED <<now, sem_until, n_sem_calls, sem_initial, sem_released, notSem>>

\* try_acquire(timeout) from a predicate evaluation of its wait_for on; until
\* is wait_for's endtime.  wait_for returns when the predicate holds or when
\* no time is left after a wait; then `if self.value > 0`, under the same
\* hold of the lock.
SemTryAcquireBody(t, until, waited) ==
    IF SemAvailable(sem_value) \/ (waited /\ now >= until)
    THEN /\ IF SemTryTakes(sem_value)
            THEN /\ sem_value' = sem_value - 1
                 /\ sem_acquired' = sem_acquired + 1
                 /\ SemReturn(t, "try_acquire", TRUE)
            ELSE /\ SemReturn(t, "try_acquire", FALSE)
                 /\ UNCHANGED <<sem_value, sem_acquired>>
         /\ pc' = [pc EXCEPT ![t] = "idle"]
         /\ sem_until' = [sem_until EXCEPT ![t] = Forever]
    ELSE /\ pc' = [pc EXCEPT ![t] = "sem_try_acquire_wait"]
         /\ sem_until' = [sem_until EXCEPT ![t] = until]
         /\ UNCHANGED <<sem_value, sem_acquired, sem_last, n_sem_returns>>

\* try_acquire(timeout): the first predicate evaluation; a false predicate
\* is followed by a wait even for timeout 0
SemTryAcquire(t, timeout) ==
    /\ pc[t] = "idle"
    /\ n_sem_calls < MaxSemCalls
    /\ n_sem_calls' = n_sem_calls + 1
    /\ SemTryAcquireBody(t, now + timeout, FALSE)
    /\ UNCHANGED <<now, sem_initial, sem_released, notSem>>

\* try_acquire woken by a notify_all
SemTryAcquireWake(t) ==
    /\ Woken(t, "sem_try_acquire")
    /\ SemTryAcquireBody(t, sem_until[t], TRUE)
    /\ UNCHANGED <<now, n_sem_calls, sem_initial, sem_released, notSem>>

\* try_acquire whose timed wait ran out
SemTryAcquireTimeout(t) ==
    /\ Parked(t, "sem_try_acquire")
    /\ TimedOut(sem_until[t], now)
    /\ SemTryAcquireBody(t, sem_until[t], TRUE)
    /\ UNCHANGED <<now, n_sem_calls, sem_initial, sem_released, notSem>>

\* ====================================================== ConditionEvent
\* __init__ assigns self.signaled and self.pendging; wait and signal_all
\* read self.pending, which nothing assigns.
CECalls == {"ce_wait"}

CEEnd(t, method, outcome) == ce_ended' = Append(ce_ended, <<t, method, outcome>>)

\* signal(): signaled += 1, notify_all
CESignal(t) ==
    /\ pc[t] = "idle"
    /\ Len(ce_ended) < MaxCeCalls
    /\ ce_signaled' = ce_signaled + 1
    /\ pc' = NotifyAll(pc, CECalls)
    /\ CEEnd(t, "signal", "returned")
    /\ UNCHANGED <<now, ce_pendging, ce_pending, ce_pid, n_ce_waits, notCE>>

\* signal_all(): signaled = self.pending, notify_all
CESignalAll(t) ==
    /\ pc[t] = "idle"
    /\ Len(ce_ended) < MaxCeCalls
    /\ IF ce_pending = Unset
       THEN /\ CEEnd(t, "signal_all", "AttributeError")
            /\ UNCHANGED <<pc, ce_signaled>>
       ELSE /\ ce_signaled' = ce_pending
            /\ pc' = NotifyAll(pc, CECalls)
            /\ CEEnd(t, "signal_all", "returned")
    /\ UNCHANGED <<now, ce_pendging, ce_pending, ce_pid, n_ce_waits, notCE>>

\* wait's wait_for predicate: self.signaled > pid
CEReleased(signaled, pid) == signaled > pid

\* wait(): pid = self.pending, pendging += 1, wait_for
CEWait(t) ==
    /\ pc[t] = "idle"
    /\ Len(ce_ended) < MaxCeCalls
    /\ n_ce_waits' = n_ce_waits + 1
    /\ IF ce_pending = Unset
       THEN /\ CEEnd(t, "wait", "AttributeError")
            /\ UNCHANGED <<pc, ce_pendging, ce_pid>>
       ELSE /\ ce_pid' = [ce_pid EXCEPT ![t] = ce_pending]
            /\ ce_pendging' = ce_pendging + 1
            /\ IF CEReleased(ce_signaled, ce_pending)
               THEN /\ CEEnd(t, "wait", "returned")
                    /\ UNCHANGED pc
               ELSE /\ pc' = [pc EXCEPT ![t] = "ce_wait_wait"]
                    /\ UNCHANGED ce_ended
    /\ UNCHANGED <<now, ce_signaled, ce_pending, notCE>>

\* wait(), woken: the predicate again
CEWaitWake(t) ==
    /\ Woken(t, "ce_wait")
    /\ IF CEReleased(ce_signaled, ce_pid[t])
       THEN /\ pc' = [pc EXCEPT ![t] = "idle"]
            /\ CEEnd(t, "wait", "returned")
       ELSE /\ pc' = [pc EXCEPT ![t] = "ce_wait_wait"]
            /\ UNCHANGED ce_ended
    /\ UNCHANGED <<now, ce_signaled, ce_pendging, ce_pending, ce_pid, n_ce_waits, notCE>>

\* =========================================================== AutoEvent
AECalls == {"ae_wait"}

\* signal(): signaled = True, notify_all
AESignal(t) ==
    /\ pc[t] = "idle"
    /\ n_ae_signals < MaxSignals
    /\ n_ae_signals' = n_ae_signals + 1
    /\ ae_signaled' = TRUE
    /\ pc' = NotifyAll(pc, AECalls)
    /\ UNCHANGED <<now, n_ae_returns, notAE>>

AEAfterWait_Kept(signaled) == signaled
\* wait(), after its wait_for: self.signaled = False
AEAfterWait(signaled) == FALSE

\* wait() from its wait_for on: the predicate self.signaled, then the reset
AEWaitBody(t) ==
    IF ae_signaled
    THEN /\ ae_signaled' = AEAfterWait(ae_signaled)
         /\ n_ae_returns' = n_ae_returns + 1
         /\ pc' = [pc EXCEPT ![t] = "idle"]
    ELSE /\ pc' = [pc EXCEPT ![t] = "ae_wait_wait"]
         /\ UNCHANGED <<ae_signaled, n_ae_returns>>

AEWait(t) ==
    /\ pc[t] = "idle"
    /\ AEWaitBody(t)
    /\ UNCHANGED <<now, n_ae_signals, notAE>>

AEWaitWake(t) ==
    /\ Woken(t, "ae_wait")
    /\ AEWaitBody(t)
    /\ UNCHANGED <<now, n_ae_signals, notAE>>

\* --------------------------------------------------- specifications
RWNext ==
    \E t \in Threads :
        \/ RWLockRead(t)
        \/ RWLockReadWake(t)
        \/ RWUnlockRead(t)
        \/ RWLockWrite(t)
        \/ RWLockWriteWake(t)
        \/ RWUnlockWrite(t)

\* Threads pair their calls: unlock_write is called only by a thread whose
\* lock_write returned.  No lock_write of RWLock2 returns (C2), so
\* RW2UnlockWrite has no caller and is not a disjunct.
RW2Next ==
    \E t \in Threads :
        \/ RW2LockRead(t)
        \/ RW2LockReadWake(t)
        \/ RW2UnlockRead(t)
        \/ RW2LockWrite(t)
        \/ RW2LockWriteWake(t)

\* AutoBarrier's only notify_all is behind arrivals == max_arrivals, which the
\* threshold arithmetic never satisfies, so no thread parked on the barrier is
\* ever notified and ABWake has no enabling state: it is not a disjunct.
ABNext ==
    \E t \in Threads :
        \/ ABArrive(t)
        \/ ABWait(t)

ABInit == Construct(1..MaxCapacity, {1}, {0})

SpecAutoBarrier == ABInit /\ [][ABNext]_vars

\* ABNext with the wake-up step, to check that it is never enabled.
SpecAutoBarrierWithWake == ABInit /\ [][ABNext \/ \E t \in Threads : ABWake(t)]_vars

ABNobodyWoken == \A t \in Threads : \A c \in ABCalls : ~Woken(t, c)

BQNext ==
    \E t \in Threads :
        \/ BQEnqueue(t)
        \/ BQEnqueueWake(t)
        \/ BQDequeue(t)
        \/ BQDequeueWake(t)

UBQNext ==
    \E t \in Threads :
        \/ UBQEnqueue(t)
        \/ UBQDequeue(t)
        \/ UBQDequeueWake(t)

BQInit == Construct({1}, 1..MaxQueueCapacity, {0})

SpecBlockingQueue == BQInit /\ [][BQNext]_vars

SpecQueues == BQInit /\ [][BQNext \/ UBQNext]_vars

DQNext ==
    \/ Tick
    \/ \E t \in Consumers :
        \/ \E timeout \in Delays(now) : DQEnqueue(t, timeout)
        \/ DQDequeue(t)
        \/ DQDequeueWake(t)
        \/ DQDequeueTimeout(t)

SpecDelayQueue == Init /\ [][DQNext]_vars

DENext ==
    \/ Tick
    \/ \E timeout \in Delays(now) : DEExecute(timeout)
    \/ DEWorkerDequeue
    \/ DEWorkerWake
    \/ DEWorkerTimeout
    \/ DEWorkerSubmit

SpecDelayExecutor == Init /\ [][DENext]_vars

EMNext ==
    \/ Tick
    \/ \E t \in Clients :
        \/ \E key \in Keys : EMContains(t, key)
        \/ \E key \in Keys : EMGet(t, key)
        \/ \E key \in Keys : \E value \in Values : EMPut(t, key, value)
        \/ \E key \in Keys : \E timeout \in Delays(now) : \E addable \in BOOLEAN :
               EMRemove(t, key, timeout, addable)
        \/ EMRemoveEnqueue(t)
    \/ EMWorkerDequeue
    \/ EMWorkerWake
    \/ EMWorkerTimeout
    \/ EMWorkerCheck

SpecExpireMap == Init /\ [][EMNext]_vars

CASNext ==
    \E t \in Threads :
        \/ \E v \in CasValues : CASSet(t, v)
        \/ \E prev_value \in CasValues : \E new_value \in CasValues :
               CASCas(t, prev_value, new_value)

SpecCAS == Init /\ [][CASNext]_vars

SemNext ==
    \/ Tick
    \/ \E t \in Threads :
        \/ SemRelease(t)
        \/ SemAcquire(t)
        \/ SemAcquireWake(t)
        \/ \E timeout \in Delays(now) : SemTryAcquire(t, timeout)
        \/ SemTryAcquireWake(t)
        \/ SemTryAcquireTimeout(t)

SemInit == Construct({1}, {1}, 0..MaxPermits)

SpecSemaphore == SemInit /\ [][SemNext]_vars

\* No wait ever blocks (it raises before its wait_for), so CEWaitWake is
\* never enabled and is left out of the next-state relation;
\* SpecConditionEventWithWake has it, and CENobodyBlocked holds of it.
CENext ==
    \E t \in Threads :
        \/ CESignal(t)
        \/ CESignalAll(t)
        \/ CEWait(t)

SpecConditionEvent == Init /\ [][CENext]_vars

SpecConditionEventWithWake == Init /\ [][CENext \/ \E t \in Threads : CEWaitWake(t)]_vars

CENobodyBlocked == \A t \in Threads : ~Parked(t, "ce_wait") /\ ~Woken(t, "ce_wait")

AENext ==
    \E t \in Threads :
        \/ AESignal(t)
        \/ AEWait(t)
        \/ AEWaitWake(t)

SpecAutoEvent == Init /\ [][AENext]_vars

SpecRWLock2 == Init /\ [][RW2Next]_vars

\* A runnable thread is eventually scheduled, and a thread that holds the
\* lock eventually unlocks it.
RW2Fairness ==
    \A t \in Threads :
        /\ WF_vars(RW2LockReadWake(t))
        /\ WF_vars(RW2LockWriteWake(t))
        /\ WF_vars(RW2UnlockRead(t))

FairSpecRWLock2 == Init /\ [][RW2Next]_vars /\ RW2Fairness

SpecRWLocks == Init /\ [][RWNext \/ RW2Next]_vars

\* ------------------------------------------------------------ claims
\* C2: under fair scheduling, with every holder eventually unlocking, every
\* call to RWLock2.lock_write eventually returns with the caller as the
\* active writer.
C2_LockWriteEventuallyReturns ==
    \A t \in Threads :
        (pc[t] \in {"rw2_lock_write_wait", "rw2_lock_write_woken"})
            ~> (pc[t] = "rw2_writing")

\* C5: while a writer of RWLock2 is pending or active no lock_read completes
\* (the reader count grows only when there is neither), and a thread that
\* holds the read lock can always complete unlock_read.
C5_NoReadAdmittedPastWriter ==
    /\ [][rw2_readers' > rw2_readers
            => (rw2_pending_writers = 0 /\ rw2_writers = 0)]_vars
    /\ [](\A t \in Threads : pc[t] = "rw2_reading" => ENABLED RW2UnlockRead(t))

\* A writer is pending while one thread holds the read lock and another is
\* parked in lock_read.
C5_Witness ==
    /\ rw2_pending_writers > 0
    /\ \E t, u \in Threads : Parked(t, "rw2_lock_read") /\ pc[u] = "rw2_reading"

\* C6: in RWLock and in RWLock2 the reader and writer counts are never both
\* nonzero, the writer count is 0 or 1, and neither count is negative.
C6_Exclusion ==
    /\ ~(rw_readers /= 0 /\ rw_writers /= 0)
    /\ rw_writers \in {0, 1}
    /\ rw_readers >= 0
    /\ ~(rw2_readers /= 0 /\ rw2_writers /= 0)
    /\ rw2_writers \in {0, 1}
    /\ rw2_readers >= 0

\* An RWLock writer is active with a reader parked behind it, while a thread
\* holds RWLock2 for reading.
C6_Witness ==
    /\ rw_writers = 1
    /\ \E t, u \in Threads : Parked(t, "rw_lock_read") /\ pc[u] = "rw2_reading"

\* C3: in every round of an AutoBarrier of capacity N the N-th arrive() returns
\* without blocking (and releases the other N-1): a thread whose arrival
\* closed a round (its arrival index is a multiple of N) is never parked.
C3_RoundClosingArriveDoesNotBlock ==
    \A t \in Threads :
        Parked(t, "ab_arrive") => ab_k[t] % ab_max_arrivals /= 0

\* C8: a BlockingQueue of capacity C never holds more than C items.
C8_CapacityRespected == Len(bq_queue) <= bq_capacity

\* The queue is full, an enqueue is parked behind it, and an enqueue that had
\* been parked has appended its item after items of later calls.
C8_Witness ==
    /\ Len(bq_queue) = bq_capacity
    /\ \E t \in Threads : Parked(t, "bq_enqueue")
    /\ \E i, j \in 1..Len(bq_appended) : i < j /\ bq_appended[i] > bq_appended[j]

\* C9: both queues are FIFO without loss or duplication: the items returned
\* so far followed by the items still held are exactly the items appended,
\* in the order of their appends, and no item was appended twice.
C9_Fifo ==
    /\ bq_appended = bq_returned \o bq_queue
    /\ ubq_appended = ubq_returned \o ubq_queue
    /\ \A i, j \in 1..Len(bq_appended) : i /= j => bq_appended[i] /= bq_appended[j]
    /\ \A i, j \in 1..Len(ubq_appended) : i /= j => ubq_appended[i] /= ubq_appended[j]

\* Each queue has returned an item while still holding a later one.
C9_Witness ==
    /\ Len(bq_returned) >= 1 /\ Len(bq_queue) >= 1
    /\ Len(ubq_returned) >= 1 /\ Len(ubq_queue) >= 1

\* C7: DelayQueue.dequeue returns a payload only in a step that pops an entry
\* of the queue whose wake time is at or before the current time and is the
\* minimum wake time among all entries then in the queue; the payload
\* returned is that entry's.
C7_DequeueEarliestDueEntry ==
    [][Len(dq_returned') > Len(dq_returned) =>
          LET e == dq_popped'
          IN  /\ \E i \in 1..Len(dq_entries) : dq_entries[i] = e
              /\ Len(dq_entries') = Len(dq_entries) - 1
              /\ dq_returned' = Append(dq_returned, e[2])
              /\ e[1] <= now
              /\ \A i \in 1..Len(dq_entries) : e[1] <= dq_entries[i][1]]_vars

\* Entries enqueued in the order 1, 2, 3, the last two with earlier wake times
\* than the first, have been dequeued in the order 2, 3, 1.
C7_Witness == dq_returned = <<2, 3, 1>>

\* the positions of de_submitted at which runnable i was handed to submit
DESubmits(i) == {j \in 1..Len(de_submitted) : de_submitted[j][1] = i}

\* C10: every work item passed to DelayExecutor.execute is handed to
\* exec.submit exactly once and never before its deadline: no item is
\* submitted twice or early, and an item not yet submitted is still on its
\* way (in the delay queue or in the worker's hands).
C10_EveryItemSubmittedOnce ==
    \A i \in 1..Len(de_deadline) :
        /\ Cardinality(DESubmits(i)) <= 1
        /\ \A j \in DESubmits(i) : de_submitted[j][2] >= de_deadline[i]
        /\ \/ DESubmits(i) /= {}
           \/ \E n \in 1..Len(de_entries) : de_entries[n][2] = i
           \/ de_worker.at = "submit" /\ de_worker.runnable = i

\* the calls on key k were exactly put(k, v); remove(k, timeout > 0);
\* put(k, v2), the second put before the expiry time the remove stored
EMPutRemovePut(k) ==
    /\ Len(em_hist[k]) = 3
    /\ em_hist[k][1][1] = "put"
    /\ em_hist[k][2][1] = "remove" /\ em_hist[k][2][2] > 0
    /\ em_hist[k][3][1] = "put" /\ em_hist[k][3][3]
    /\ \A t \in Clients : pc[t] = "em_remove_enqueue" => em_arg[t][1] /= k

\* C1: after put(k, v); remove(k, timeout > 0); put(k, v2), the second put
\* before the timeout elapses and no further call on k, the key k is present
\* and get(k) returns v2 at every later time.
C1_RewrittenValueSurvives ==
    \A k \in Keys :
        EMPutRemovePut(k) =>
            k \in DOMAIN em_table /\ em_table[k].value = em_hist[k][3][2]

\* the calls made on the map so far were put and remove calls
EMOnlyPutAndRemove ==
    \A k \in Keys : \A i \in 1..Len(em_hist[k]) :
        em_hist[k][i][1] \in {"put", "remove", "remove_error"}

\* C4: for every sequence of put and remove calls, the background worker
\* never deletes a key that is present with no expiry time recorded (when is
\* None).
C4_WorkerKeepsKeyWithoutExpiry ==
    [][\A k \in Keys :
          (/\ EMOnlyPutAndRemove
           /\ em_worker.at = "check"
           /\ em_worker'.at = "dequeue"
           /\ k \in DOMAIN em_table
           /\ k \notin DOMAIN em_table')
          => em_table[k].when /= WhenNone]_vars

\* C11: at most one cas(old, new) with new /= old returns True for each
\* assignment of old to the cell; a cas that returns False leaves the value
\* unchanged and one that returns True leaves the cell holding new.
C11_OneWinnerPerAssignment ==
    /\ [](\A v \in CasValues : cas_wins[v] <= cas_assigned[v])
    /\ [][(n_cas_ops' = n_cas_ops + 1 /\ cas_last'[1] = "cas")
          => IF cas_last'[4]
             THEN cas_value' = cas_last'[3]
             ELSE cas_value' = cas_value /\ cas_value /= cas_last'[2]]_vars

\* two cas(0, new) calls raced for the initial 0: one got True, the other False
C11_Witness ==
    /\ cas_wins[0] = 1
    /\ cas_assigned[0] = 1
    /\ cas_last = <<"cas", 0, 2, FALSE>>
    /\ cas_value = 1

\* C12: the permit count is never negative, no acquire returns while the
\* count is 0, and the successful acquisitions never exceed the initial
\* count plus the releases.
C12_PermitsConserved ==
    /\ [](sem_value >= 0)
    /\ [](sem_acquired <= sem_initial + sem_released)
    /\ [][(n_sem_returns' = n_sem_returns + 1 /\ sem_last'[2] = "acquire")
          => sem_value > 0]_vars

\* a blocked acquire took the permit a release added, leaving the count at 0
C12_Witness ==
    /\ sem_initial = 0
    /\ sem_released = 1
    /\ sem_acquired = 1
    /\ sem_last /= <<>> /\ sem_last[2] = "acquire"
    /\ \E t \in Threads : Parked(t, "sem_acquire")

\* C20: try_acquire returns True and decrements the count by exactly one if
\* the count is > 0 when its wait ends, and otherwise returns False and
\* leaves the count unchanged.
C20_TryAcquireTakesIffAvailable ==
    [][(n_sem_returns' = n_sem_returns + 1 /\ sem_last'[2] = "try_acquire")
       => IF sem_value > 0
          THEN sem_last'[3] = TRUE /\ sem_value' = sem_value - 1
          ELSE sem_last'[3] = FALSE /\ sem_value' = sem_value]_vars

\* a try_acquire timed out empty-handed while another thread's try_acquire,
\* woken by a release, took the permit
C20_Witness ==
    /\ sem_initial = 0
    /\ sem_released = 1
    /\ sem_acquired = 1
    /\ sem_value = 0
    /\ n_sem_returns = 3
    /\ sem_last /= <<>> /\ sem_last[2] = "try_acquire" /\ sem_last[3] = FALSE
    /\ now > 0

\* C13: every wait() that has ended returned, released by a signal issued
\* after it began, and every wait() begun is counted in the pending count
\* that signal_all() reads.
C13_WaitRegistersAndReturns ==
    /\ \A i \in 1..Len(ce_ended) :
           ce_ended[i][2] = "wait" =>
               /\ ce_ended[i][3] = "returned"
               /\ \E j \in 1..(i - 1) : ce_ended[j][2] \in {"signal", "signal_all"}
    /\ n_ce_waits > 0 => ce_pending = n_ce_waits

\* C14: every step that changes the queue notifies the condition, so no
\* enqueue stays blocked across a dequeue that frees a slot and no dequeue
\* stays blocked across an enqueue.
C14_QueueChangeWakesWaiters ==
    [][/\ Len(bq_queue') < Len(bq_queue)
          => \A t \in Threads : pc'[t] /= "bq_enqueue_wait"
       /\ Len(bq_queue') > Len(bq_queue)
          => \A t \in Threads : pc'[t] /= "bq_dequeue_wait"]_vars

\* C15: a consumer blocked in dequeue never sleeps past the earliest
\* deadline among the entries present: an enqueue with an earlier deadline
\* wakes it and it waits on the new minimum, so once the earliest deadline
\* has passed its wait has run out and it can return the entry.
C15_BlockedDequeueFollowsEarliestDeadline ==
    \A t \in Consumers :
        (Parked(t, "dq_dequeue") /\ dq_entries /= <<>>)
        => /\ dq_until[t] /= Forever
           /\ dq_until[t] <= dq_entries[1][1]
           /\ DQDue(dq_entries, now) => TimedOut(dq_until[t], now)

\* consumer 1 was waiting for deadline 3 when the entry with deadline 1 was
\* enqueued, and has been woken by that enqueue
C15_Witness ==
    /\ Woken(1, "dq_dequeue")
    /\ dq_until[1] = 3
    /\ dq_entries = <<<<1, 2>>, <<3, 1>>>>

\* the calls on key k were exactly remove(k, t1); remove(k, t2) with t1 and
\* t2 > 0, and both have ended
EMRemoveRemove(k) ==
    /\ Len(em_hist[k]) = 2
    /\ \A i \in 1..2 : /\ em_hist[k][i][1] \in {"remove", "remove_error"}
                       /\ em_hist[k][i][2] > 0
    /\ \A t \in Clients : pc[t] = "em_remove_enqueue" => em_arg[t][1] /= k

\* a timer entry of key k with a wake time at or after k's stored expiry is
\* queued or in the worker's hands
EMTimerPending(k) ==
    \/ \E n \in 1..Len(em_keys) :
           em_keys[n][2] = k /\ em_keys[n][1] >= em_table[k].when
    \/ em_worker.at = "check" /\ em_worker.key = k

\* C16: after remove(k, t1); remove(k, t2), k stays in the map until the
\* stored expiry time is reached (a timer entry that fires earlier leaves
\* it), and as long as k is present a timer entry whose wake time is at or
\* after the stored expiry is pending, at whose processing k is deleted.
C16_RefreshedExpiryHonoured ==
    /\ [](\A k \in Keys :
             (EMRemoveRemove(k) /\ k \in DOMAIN em_table) => EMTimerPending(k))
    /\ [][\A k \in Keys :
             (/\ EMRemoveRemove(k) /\ EMRemoveRemove(k)'
              /\ k \in DOMAIN em_table /\ k \notin DOMAIN em_table')
             => (em_table[k].when /= WhenNone /\ em_table[k].when <= now)]_vars

\* the smallest multiple of n that is >= k, and the next multiple of n above c
SmallestMultipleAtLeast(k, n) == ((k + n - 1) \div n) * n
NextMultipleAbove(c, n) == ((c \div n) + 1) * n

\* C17: an arrive() that is the k-th arrival does not return while the
\* arrival count is below the smallest multiple of N that is >= k, and a
\* wait() does not return before the count reaches the next multiple of N
\* above the count it observed: a call that returns at once does so on a
\* full round, a call that blocks waits for a count at least that large, and
\* a blocked call returns only when the count has reached what it waits for.
C17_NoEarlyRelease ==
    [][/\ (/\ ab_arrivals' = ab_arrivals + 1
           /\ \A t \in Threads : pc'[t] = "ab_arrive_wait" => pc[t] = "ab_arrive_wait")
          => ab_arrivals' >= SmallestMultipleAtLeast(ab_arrivals', ab_max_arrivals)
       /\ \A t \in Threads :
           /\ (pc[t] = "idle" /\ pc'[t] = "ab_arrive_wait")
              => ab_threshold'[t] >= SmallestMultipleAtLeast(ab_k'[t], ab_max_arrivals)
           /\ (pc[t] = "idle" /\ pc'[t] = "ab_wait_wait")
              => ab_threshold'[t] >= NextMultipleAbove(ab_arrivals, ab_max_arrivals)
           /\ (pc[t] /= "idle" /\ pc'[t] = "idle")
              => ab_arrivals >= ab_threshold[t]]_vars

\* with capacity 3, the first and the second arrival are blocked in
\* arrive() at a count of 2, and so is a wait() that observed that count
C17_Witness ==
    /\ ab_max_arrivals = 3
    /\ ab_arrivals = 2
    /\ \E t \in Threads : Parked(t, "ab_arrive") /\ ab_k[t] = 1
    /\ \E t \in Threads : Parked(t, "ab_arrive") /\ ab_k[t] = 2
    /\ \E t \in Threads : Parked(t, "ab_wait") /\ ab_threshold[t] = 3

\* C18: get and contains are read-only: a step in which get(k) or
\* contains(k) completes leaves the table unchanged, and get(k) on an absent
\* key yields the absent result (so that contains(k) is still false after it).
C18_ReadsLeaveTableUnchanged ==
    [][/\ \A k \in Keys :
           (/\ Len(em_hist'[k]) = Len(em_hist[k]) + 1
            /\ em_hist'[k][Len(em_hist'[k])][1] = "get")
           => /\ DOMAIN em_table' = DOMAIN em_table
              /\ \A j \in DOMAIN em_table : em_table'[j] = em_table[j]
              /\ k \notin DOMAIN em_table => em_result'[2] = ValueNone
       /\ (/\ em_result' /= <<>> /\ em_result'[1] = "contains"
           /\ UNCHANGED <<em_hist, em_keys, em_worker, em_arg, now>>)
          => /\ DOMAIN em_table' = DOMAIN em_table
             /\ \A j \in DOMAIN em_table : em_table'[j] = em_table[j]]_vars

\* C19: every wait() that returns clears the flag as it returns, so the
\* wait() calls that have returned, plus the one the flag still admits,
\* never outnumber the signal() calls made, and of the threads woken by one
\* signal() only one returns: the others find the flag cleared and block
\* again.
C19_OneWaitPerSignal ==
    /\ [](n_ae_returns + (IF ae_signaled THEN 1 ELSE 0) <= n_ae_signals)
    /\ [][n_ae_returns' = n_ae_returns + 1 => (ae_signaled /\ ~ae_signaled')]_vars

\* two threads were blocked in wait() when the one signal() was made; one of
\* them has returned and the other is blocked again
C19_Witness ==
    /\ n_ae_signals = 1
    /\ n_ae_returns = 1
    /\ ~ae_signaled
    /\ \E t \in Threads : Parked(t, "ae_wait")
    /\ \E t \in Threads : pc[t] = "idle"

====
